---------------------------- MODULE Spec2Model ----------------------------
(***************************************************************************)
(* State-machine model of who8myrpi/sensors.py: the per-pin Channel        *)
(* threads (Channel.run, add_data, adjust_history, check_values, stop)     *)
(* and the coordinator collect_data (power-up, channel start, readiness    *)
(* wait, drain/persist loop, power cycling, KeyboardInterrupt shutdown).   *)
(* The decoder (read_dht22_single, bits_to_bytes, compute_checksum) and    *)
(* the outlier filter (check_values) are also run alone, as DecodeSpec and *)
(* FilterSpec, on captures and histories drawn from bounded sets.          *)
(*                                                                         *)
(* Units: time_stamp values are clock ticks; RH is in tenths of a percent, *)
(* Tc in tenths of a degree Celsius and Tf in hundredths of a degree       *)
(* Fahrenheit, which makes c2f exact on integers.                          *)
(***************************************************************************)
EXTENDS Integers, Sequences, FiniteSets

VARIABLES
    now,             \* the wall clock read by time.time()
    pc,              \* pc[c]: position of channel c's thread
    keep_running,    \* Channel._keep_running
    data_history,    \* Channel.data_history
    data_latest,     \* Channel.data_latest
    info,            \* run()'s local sample of the cycle in flight
    time_stamp_now,  \* adjust_history()'s local clock reading
    num_removed,     \* add_data()'s local count of evicted samples
    error,           \* the exception that ended channel c's thread
    stop_called,     \* history variable: stop() has been called on c
    queue,           \* the channels' Queue.Queue
    maxsize,         \* capacity of the queue (0: unbounded, as in Queue)
    cpc,             \* position of collect_data
    idx,             \* position of collect_data's loops over the channels
    count_ready,     \* collect_data's count_ready
    data_collected,  \* collect_data's batch being drained
    files,           \* every io.write(f, data_collected), in order
    power,           \* level of the sensors' power pin
    nsamples,        \* valid readings delivered so far (bounds the model)
    queue_at_stop,   \* history variable: the queue when the interrupt came
    drain_start,     \* history variable: the queue when the drain pass began
    capture,         \* what dht22.read_bits returned: (first, bits)
    reading,         \* what read_dht22_single made of the capture
    test_history,    \* a data_history handed to check_values
    candidate,       \* the info_new handed to check_values
    info_checked,    \* what check_values returned
    pin_power,       \* collect_data's pin_power is not None
    enqueued         \* history variable: every sample a put has enqueued

vars == <<now, pc, keep_running, data_history, data_latest, info,
          time_stamp_now, num_removed, error, stop_called, queue, maxsize,
          cpc, idx, count_ready, data_collected, files, power, nsamples,
          queue_at_stop, drain_start, capture, reading, test_history,
          candidate, info_checked, pin_power, enqueued>>

chanVars == <<pc, keep_running, data_history, data_latest, info,
              time_stamp_now, num_removed, error, stop_called>>

\* The history variables of the coordinator.
ghostVars == <<queue_at_stop, drain_start>>

\* The variables of the decoder and of the outlier filter taken alone.
pureVars ==
    <<capture, reading, test_history, candidate, info_checked>>

coordVars ==
    <<cpc, idx, count_ready, data_collected, files, power, maxsize,
      ghostVars, pureVars, pin_power>>

\* ------------------------------------------------------------ bounds
\* Number of data pins handed to collect_data.
NumChannels == 2
\* Last value of the clock.
MaxTime == 2
\* Valid readings the sensors deliver in one run, over all pins.
MaxSamples == 3
\* Stand-in for Queue.Queue(maxsize=100): the capacity of collect_data's
\* shared queue.
QueueMax == 2
\* Stand-in for _time_history_default = 10*60 seconds, in clock ticks.
time_history == 1

\* Longest history handed to the outlier filter.
MaxHistory == 11

\* A capture handed to the decoder is up to this many bits short or long.
MaxBitsOff == 1

\* ------------------------------------------------- program constants
num_min_history == 10
check_threshold == 25
\* Bits of one DHT22 transmission: five bytes.
FrameBits == 40

Pins == 1..NumChannels

\* Python's None for a sample (no real pin is 0).
None == [pin |-> 0, RH |-> 0, Tf |-> 0, time_stamp |-> 0]

\* Value of drain_start while no drain pass is under way.
NoPass == <<None>>

\* Python's None for the first marker of a capture.
NoFirst == -1

\* Value of capture before dht22.read_bits has been called.
NoCapture == [first |-> NoFirst, bits |-> <<>>, frame |-> <<>>]

\* Value of reading before read_dht22_single has returned.
NotRead == [ok |-> FALSE, RH |-> 0, Tc |-> 0, msg |-> "not read"]

\* ------------------------------------------------------ pure helpers
\* np.int(byte_str, 2): the number whose binary digits are the bits, the
\* first bit being the most significant.
RECURSIVE BinaryValue(_)
BinaryValue(bits) ==
    IF bits = <<>> THEN 0
    ELSE 2 * BinaryValue(SubSeq(bits, 1, Len(bits) - 1)) + bits[Len(bits)]

\* Faulty variant of compute_checksum: the sum is compared unmasked.
compute_checksum_nomask(byte_1, byte_2, byte_3, byte_4, byte_5) ==
    byte_1 + byte_2 + byte_3 + byte_4 = byte_5

\* compute_checksum: val_sum & 255 == byte_5
compute_checksum(byte_1, byte_2, byte_3, byte_4, byte_5) ==
    (byte_1 + byte_2 + byte_3 + byte_4) % 256 = byte_5

\* bits_to_bytes, called on FrameBits bits
bits_to_bytes(bits) ==
    LET byte_1 == BinaryValue(SubSeq(bits, 1, 8))
        byte_2 == BinaryValue(SubSeq(bits, 9, 16))
        byte_3 == BinaryValue(SubSeq(bits, 17, 24))
        byte_4 == BinaryValue(SubSeq(bits, 25, 32))
        byte_5 == BinaryValue(SubSeq(bits, 33, 40))
    IN  [byte_1 |-> byte_1, byte_2 |-> byte_2, byte_3 |-> byte_3,
         byte_4 |-> byte_4,
         ok |-> compute_checksum(byte_1, byte_2, byte_3, byte_4, byte_5)]

\* read_dht22_single's return value (None, msg)
Fail(msg) == [ok |-> FALSE, RH |-> 0, Tc |-> 0, msg |-> msg]

\* Faulty variant of read_dht22_single: the length of the capture is
\* tested before its first marker.
read_dht22_single_lenfirst(first, bits) ==
    IF Len(bits) # FrameBits THEN Fail("Fail len(bits) != 40")
    ELSE IF first = NoFirst THEN Fail("read_bits message")
    ELSE IF first # 1 THEN Fail("Fail first != 1")
    ELSE LET b == bits_to_bytes(bits)
         IN  IF b.ok
             THEN [ok |-> TRUE, RH |-> b.byte_1 * 256 + b.byte_2,
                   Tc |-> b.byte_3 * 256 + b.byte_4, msg |-> ""]
             ELSE Fail("Fail checksum")

\* read_dht22_single on what dht22.read_bits returned; RH and Tc are in
\* tenths, so the division by 10. is left out.  With no first marker
\* read_bits hands its own message back in place of the bits.
read_dht22_single(first, bits) ==
    IF first = NoFirst THEN Fail("read_bits message")
    ELSE IF first # 1 THEN Fail("Fail first != 1")
    ELSE IF Len(bits) = FrameBits
    THEN LET b == bits_to_bytes(bits)
         IN  IF b.ok
             THEN [ok |-> TRUE, RH |-> b.byte_1 * 256 + b.byte_2,
                   Tc |-> b.byte_3 * 256 + b.byte_4, msg |-> ""]
             ELSE Fail("Fail checksum")
    ELSE Fail("Fail len(bits) != 40")

\* The eight bits a sensor sends for one byte, most significant first.
ByteBits(b) == [i \in 1..8 |-> (b \div 2 ^ (8 - i)) % 2]

\* The bits a sensor sends for a frame of five bytes.
EncodeFrame(frame) ==
    ByteBits(frame[1]) \o ByteBits(frame[2]) \o ByteBits(frame[3])
        \o ByteBits(frame[4]) \o ByteBits(frame[5])

\* The bits of a frame as read_bits captured them: off bits too few
\* (off < 0) or too many.
CaptureBits(frame, off) ==
    IF off <= 0 THEN SubSeq(EncodeFrame(frame), 1, FrameBits + off)
    ELSE EncodeFrame(frame) \o [i \in 1..off |-> 0]

\* The captures the channels of collect_data meet: a sensor that does
\* not answer, a bad first marker, a lost bit, a corrupted byte and a
\* good transmission of 51.2 % and 33.6 degrees Celsius.
PolledCaptures ==
    {[first |-> NoFirst, bits |-> <<>>, frame |-> <<>>],
     [first |-> 0, bits |-> CaptureBits(<<2, 0, 1, 80, 83>>, 0),
      frame |-> <<2, 0, 1, 80, 83>>],
     [first |-> 1, bits |-> CaptureBits(<<2, 0, 1, 80, 83>>, -1),
      frame |-> <<2, 0, 1, 80, 83>>],
     [first |-> 1, bits |-> CaptureBits(<<2, 0, 1, 80, 84>>, 0),
      frame |-> <<2, 0, 1, 80, 84>>],
     [first |-> 1, bits |-> CaptureBits(<<2, 0, 1, 80, 83>>, 0),
      frame |-> <<2, 0, 1, 80, 83>>]}

\* What read_dht22_single returns to run() for these captures.
Polled == {read_dht22_single(cap.first, cap.bits) : cap \in PolledCaptures}

\* What read_dht22_single returns when the capture decodes: (RH, Tc).
Readings == {r \in Polled : r.ok}

\* What read_dht22_single returns when the capture does not decode.
ReadFailures == {r \in Polled : ~r.ok}

c2f(C) == C * 18 + 3200

Abs(x) == IF x < 0 THEN -x ELSE x

RECURSIVE SortedInsert(_, _)
SortedInsert(s, v) ==
    IF s = <<>> THEN <<v>>
    ELSE IF v <= Head(s) THEN <<v>> \o s
    ELSE <<Head(s)>> \o SortedInsert(Tail(s), v)

RECURSIVE Sorted(_)
Sorted(s) == IF s = <<>> THEN <<>> ELSE SortedInsert(Sorted(Tail(s)), Head(s))

\* Twice np.median(samples): the middle value, or the mean of the two
\* middle values, of the sorted samples.
Median2(samples) ==
    LET s == Sorted(samples)
        n == Len(s)
    IN  IF n % 2 = 1 THEN 2 * s[(n + 1) \div 2]
        ELSE s[n \div 2] + s[n \div 2 + 1]

\* Faulty variant of check_data_value: a value at the threshold is
\* replaced too.
check_data_value_ge(samples, value, scale) ==
    LET med2 == Median2(samples)
    IN  IF Abs(2 * value - med2) >= 2 * check_threshold * scale
        THEN med2 \div 2
        ELSE value

\* Channel._check_data_value; scale is the number of value units in one
\* unit of check_threshold.  The median replaces the value when it is
\* further than the threshold away.  The median is a whole number of
\* units when the two middle values are both even or both odd, as they
\* are for the even values the model's sensors and histories hold.
check_data_value(samples, value, scale) ==
    LET med2 == Median2(samples)
    IN  IF Abs(2 * value - med2) > 2 * check_threshold * scale
        THEN med2 \div 2
        ELSE value

\* Channel.check_values
check_values(h, info_new) ==
    IF Len(h) >= num_min_history
    THEN LET data_history_RH == [i \in 1..Len(h) |-> h[i].RH]
             data_history_Tf == [i \in 1..Len(h) |-> h[i].Tf]
         IN  [info_new EXCEPT
                !.RH = check_data_value(data_history_RH, info_new.RH, 10),
                !.Tf = check_data_value(data_history_Tf, info_new.Tf, 100)]
    ELSE info_new

\* Faulty variant of adjust_history: the age is computed with its sign
\* reversed, so nothing is ever too old.
adjust_history_sign(h, t) ==
    SelectSeq(h, LAMBDA d : ~(d.time_stamp - t > time_history))

\* Channel.adjust_history: the history without the samples older than the
\* time window at clock reading t.
adjust_history(h, t) ==
    SelectSeq(h, LAMBDA d : ~(t - d.time_stamp > time_history))

\* Faulty variant of history_append: a second eviction pass runs after
\* the append.
history_append_evict(h, d, t) == adjust_history(Append(h, d), t)

\* add_data's self.data_history.append(info)
history_append(h, d, t) == Append(h, d)

Min(S) == CHOOSE x \in S : \A y \in S : x <= y

\* ------------------------------------------------------------- Init
Init ==
    /\ now = 0
    /\ pc = [c \in Pins |-> "idle"]
    /\ keep_running = [c \in Pins |-> FALSE]
    /\ data_history = [c \in Pins |-> <<>>]
    /\ data_latest = [c \in Pins |-> None]
    /\ info = [c \in Pins |-> None]
    /\ time_stamp_now = [c \in Pins |-> 0]
    /\ num_removed = [c \in Pins |-> 0]
    /\ error = [c \in Pins |-> "none"]
    /\ stop_called = [c \in Pins |-> FALSE]
    /\ queue = <<>>
    /\ maxsize = QueueMax
    /\ cpc = "init"
    /\ idx = 1
    /\ count_ready = 0
    /\ data_collected = <<>>
    /\ files = <<>>
    /\ power = "unset"
    /\ nsamples = 0
    /\ queue_at_stop = <<>>
    /\ drain_start = NoPass
    /\ capture = NoCapture
    /\ reading = NotRead
    /\ test_history = <<>>
    /\ candidate = None
    /\ info_checked = None
    /\ pin_power = TRUE
    /\ enqueued = <<>>

\* ------------------------------------------------------------ clock
Tick ==
    /\ now < MaxTime
    /\ now' = now + 1
    /\ UNCHANGED <<chanVars, coordVars, queue, enqueued, nsamples>>

\* ---------------------------------------------------------- channel
\* run(): self._keep_running = True
RunInit(c) ==
    /\ pc[c] = "start"
    /\ keep_running' = [keep_running EXCEPT ![c] = TRUE]
    /\ pc' = [pc EXCEPT ![c] = "loop"]
    /\ UNCHANGED <<now, data_history, data_latest, info, time_stamp_now,
                   num_removed, error, stop_called, queue, enqueued,
                   coordVars, nsamples>>

\* run(): while self._keep_running.  The locals of the cycle that has
\* ended are dead from here on (each is assigned before it is read) and
\* are cleared.
LoopCheck(c) ==
    /\ pc[c] = "loop"
    /\ pc' = [pc EXCEPT ![c] = IF keep_running[c] THEN "read" ELSE "done"]
    /\ info' = [info EXCEPT ![c] = None]
    /\ time_stamp_now' = [time_stamp_now EXCEPT ![c] = 0]
    /\ num_removed' = [num_removed EXCEPT ![c] = 0]
    /\ UNCHANGED <<now, keep_running, data_history, data_latest, error,
                   stop_called, queue, enqueued, coordVars, nsamples>>

\* Faulty variant of ReadFail: a capture that does not decode also
\* forgets the channel's latest sample.
ReadFail_clear(c) ==
    /\ pc[c] = "read"
    /\ ReadFailures # {}
    /\ pc' = [pc EXCEPT ![c] = "loop"]
    /\ data_latest' = [data_latest EXCEPT ![c] = None]
    /\ UNCHANGED <<now, keep_running, data_history, info, time_stamp_now,
                   num_removed, error, stop_called, queue, enqueued,
                   coordVars, nsamples>>

\* run(): read_dht22_single returned (None, msg); sleep; repeat
ReadFail(c) ==
    /\ pc[c] = "read"
    /\ ReadFailures # {}
    /\ pc' = [pc EXCEPT ![c] = "loop"]
    /\ UNCHANGED <<now, keep_running, data_history, data_latest, info,
                   time_stamp_now, num_removed, error, stop_called, queue,
                   enqueued, coordVars, nsamples>>

\* run(): read_dht22_single returned a reading; the sample is built with
\* time_stamp = time.time().  Once MaxSamples readings have been
\* delivered every further capture fails to decode.
ReadOk(c) ==
    /\ pc[c] = "read"
    /\ nsamples < MaxSamples
    /\ \E r \in Readings :
          info' = [info EXCEPT ![c] =
                     [pin |-> c, RH |-> r.RH, Tf |-> c2f(r.Tc),
                      time_stamp |-> now]]
    /\ nsamples' = nsamples + 1
    /\ pc' = [pc EXCEPT ![c] = "adjust"]
    /\ UNCHANGED <<now, keep_running, data_history, data_latest,
                   time_stamp_now, num_removed, error, stop_called, queue,
                   enqueued, coordVars>>

\* add_data(): adjust_history(), then the ValueError when nothing remains
AdjustHistory(c) ==
    /\ pc[c] = "adjust"
    /\ LET kept == adjust_history(data_history[c], now)
           num_remain == Len(kept)
           removed == Len(data_history[c]) - Len(kept)
       IN  /\ data_history' = [data_history EXCEPT ![c] = kept]
           /\ time_stamp_now' = [time_stamp_now EXCEPT ![c] = now]
           /\ num_removed' = [num_removed EXCEPT ![c] = removed]
           /\ IF num_remain = 0 /\ removed > 0
              THEN /\ pc' = [pc EXCEPT ![c] = "dead"]
                   /\ error' = [error EXCEPT ![c] = "ValueError"]
              ELSE /\ pc' = [pc EXCEPT ![c] = "append"]
                   /\ UNCHANGED error
    /\ UNCHANGED <<now, keep_running, data_latest, info, stop_called, queue,
                   enqueued, coordVars, nsamples>>

\* add_data(): check_values(), data_history.append(), data_latest = info
AppendData(c) ==
    /\ pc[c] = "append"
    /\ LET checked == check_values(data_history[c], info[c])
       IN  /\ data_history' = [data_history EXCEPT ![c] =
                 history_append(data_history[c], checked, time_stamp_now[c])]
           /\ data_latest' = [data_latest EXCEPT ![c] = checked]
           /\ info' = [info EXCEPT ![c] = checked]
    /\ pc' = [pc EXCEPT ![c] = "put"]
    /\ UNCHANGED <<now, keep_running, time_stamp_now, num_removed, error,
                   stop_called, queue, enqueued, coordVars, nsamples>>

\* Queue.put(item, False) raises Full: the queue is bounded and holds
\* maxsize items.
QueueIsFull == maxsize > 0 /\ Len(queue) >= maxsize

\* Faulty variant of Put: a full queue drops the sample and the loop goes on.
Put_drop(c) ==
    /\ pc[c] = "put"
    /\ queue' = IF QueueIsFull THEN queue ELSE Append(queue, info[c])
    /\ enqueued' = IF QueueIsFull THEN enqueued
                   ELSE Append(enqueued, info[c])
    /\ pc' = [pc EXCEPT ![c] = "loop"]
    /\ UNCHANGED <<now, keep_running, data_history, data_latest, info,
                   time_stamp_now, num_removed, error, stop_called,
                   coordVars, nsamples>>

\* Faulty variant of Put: a blocking put, which waits for a free slot.
Put_wait(c) ==
    /\ pc[c] = "put"
    /\ ~QueueIsFull
    /\ queue' = Append(queue, info[c])
    /\ enqueued' = Append(enqueued, info[c])
    /\ pc' = [pc EXCEPT ![c] = "loop"]
    /\ UNCHANGED <<now, keep_running, data_history, data_latest, info,
                   time_stamp_now, num_removed, error, stop_called,
                   coordVars, nsamples>>

\* add_data(): self.queue.put(info, False), Queue.Full re-raised; on
\* success run() sleeps and repeats
Put(c) ==
    /\ pc[c] = "put"
    /\ IF QueueIsFull
       THEN /\ pc' = [pc EXCEPT ![c] = "dead"]
            /\ error' = [error EXCEPT ![c] = "QueueFull"]
            /\ UNCHANGED <<queue, enqueued>>
       ELSE /\ queue' = Append(queue, info[c])
            /\ enqueued' = Append(enqueued, info[c])
            /\ pc' = [pc EXCEPT ![c] = "loop"]
            /\ UNCHANGED error
    /\ UNCHANGED <<now, keep_running, data_history, data_latest, info,
                   time_stamp_now, num_removed, stop_called, coordVars,
                   nsamples>>

ChannelStep(c) ==
    \/ RunInit(c)
    \/ LoopCheck(c)
    \/ ReadFail(c)
    \/ ReadOk(c)
    \/ AdjustHistory(c)
    \/ AppendData(c)
    \/ Put(c)

\* ------------------------------------------------------ coordinator
\* Faulty variant of StopChannel: stop() also forgets the channel's
\* latest sample.
StopChannel_reset(c) ==
    /\ keep_running' = [keep_running EXCEPT ![c] = FALSE]
    /\ stop_called' = [stop_called EXCEPT ![c] = TRUE]
    /\ data_latest' = [data_latest EXCEPT ![c] = None]

\* Channel.stop()
StopChannel(c) ==
    /\ keep_running' = [keep_running EXCEPT ![c] = FALSE]
    /\ stop_called' = [stop_called EXCEPT ![c] = TRUE]
    /\ UNCHANGED data_latest

\* Faulty variant of PowerUp: the power pin is left alone and the
\* channels are built at once.
PowerUp_skip ==
    /\ cpc = "init"
    /\ cpc' = "create"
    /\ idx' = 1
    /\ UNCHANGED <<now, chanVars, queue, enqueued, count_ready,
                   data_collected, files, power, nsamples, maxsize,
                   pin_power, ghostVars, pureVars>>

\* collect_data(): power up the sensors.  With a power pin the pin is
\* made an output and driven high and time.sleep(5) begins; without one
\* the channels are built at once.
PowerUp ==
    /\ cpc = "init"
    /\ IF pin_power
       THEN /\ power' = "high"
            /\ cpc' = "settle"
       ELSE /\ cpc' = "create"
            /\ UNCHANGED power
    /\ idx' = 1
    /\ UNCHANGED <<now, chanVars, queue, enqueued, count_ready,
                   data_collected, files, nsamples, maxsize, pin_power,
                   ghostVars, pureVars>>

\* collect_data(): time.sleep(5) returns; the queue is built
Settle ==
    /\ cpc = "settle"
    /\ cpc' = "create"
    /\ UNCHANGED <<now, chanVars, queue, enqueued, idx, count_ready,
                   data_collected, files, power, nsamples, maxsize,
                   pin_power, ghostVars, pureVars>>

\* collect_data(): c = Channel(p, queue=queue); c.start()
StartChannel ==
    /\ cpc = "create"
    /\ pc[idx] = "idle"
    /\ pc' = [pc EXCEPT ![idx] = "start"]
    /\ idx' = idx + 1
    /\ cpc' = IF idx = NumChannels THEN "ready" ELSE "create"
    /\ UNCHANGED <<now, keep_running, data_history, data_latest, info,
                   time_stamp_now, num_removed, error, stop_called, queue,
                   enqueued, count_ready, data_collected, files, power,
                   nsamples, maxsize, pin_power, ghostVars, pureVars>>

\* Faulty variant of ChannelsOk: one ready channel is enough.
ChannelsOk_any(n) == n >= 1

\* collect_data(): count_ready == len(channels)
ChannelsOk(n) == n = NumChannels

\* collect_data(): one pass of the readiness loop; timeout says whether
\* time_elapsed has reached time_wait_max after it
ReadyCheck ==
    /\ cpc = "ready"
    /\ \E timeout \in BOOLEAN :
         LET n == Cardinality({c \in Pins : data_latest[c] # None})
         IN  /\ count_ready' = n
             /\ IF ChannelsOk(n)
                THEN /\ cpc' = "drain"
                     /\ idx' = idx
                ELSE IF timeout
                THEN /\ cpc' = "stopfail"
                     /\ idx' = 1
                ELSE /\ cpc' = "ready"
                     /\ idx' = idx
    /\ UNCHANGED <<now, chanVars, queue, enqueued, data_collected, files,
                   power, nsamples, maxsize, pin_power, ghostVars, pureVars>>

\* collect_data(): stop_all_channels(channels), then raise ValueError
StopFail ==
    /\ cpc = "stopfail"
    /\ StopChannel(idx)
    /\ idx' = idx + 1
    /\ cpc' = IF idx = NumChannels THEN "failed" ELSE "stopfail"
    /\ UNCHANGED <<now, pc, data_history, info, time_stamp_now, num_removed,
                   error, queue, enqueued, count_ready, data_collected,
                   files, power, nsamples, maxsize, pin_power, ghostVars,
                   pureVars>>

\* Faulty variant of Drain: the loop does not test the queue and always
\* goes on to queue.get().
Drain_notest ==
    /\ cpc = "drain"
    /\ cpc' = "get"
    /\ drain_start' = IF drain_start = NoPass THEN queue ELSE drain_start
    /\ UNCHANGED <<now, chanVars, queue, enqueued, idx, count_ready,
                   data_collected, files, power, nsamples, maxsize,
                   pin_power, queue_at_stop, pureVars>>

\* collect_data(): while not queue.empty().  The first test of a pass
\* records the queue as the pass finds it.
Drain ==
    /\ cpc = "drain"
    /\ cpc' = IF queue = <<>> THEN "write" ELSE "get"
    /\ drain_start' = IF drain_start = NoPass THEN queue ELSE drain_start
    /\ UNCHANGED <<now, chanVars, queue, enqueued, idx, count_ready,
                   data_collected, files, power, nsamples, maxsize,
                   pin_power, queue_at_stop, pureVars>>

\* Faulty variant of Get: the newest sample of the queue is taken, as
\* from a LifoQueue.
Get_lifo ==
    /\ cpc = "get"
    /\ queue # <<>>
    /\ data_collected' = Append(data_collected, queue[Len(queue)])
    /\ queue' = SubSeq(queue, 1, Len(queue) - 1)
    /\ cpc' = "drain"
    /\ UNCHANGED <<now, chanVars, enqueued, idx, count_ready, files, power,
                   nsamples, maxsize, pin_power, ghostVars, pureVars>>

\* collect_data(): info = queue.get(); data_collected.append(info).
\* get() waits while the queue is empty.
Get ==
    /\ cpc = "get"
    /\ queue # <<>>
    /\ data_collected' = Append(data_collected, Head(queue))
    /\ queue' = Tail(queue)
    /\ cpc' = "drain"
    /\ UNCHANGED <<now, chanVars, enqueued, idx, count_ready, files, power,
                   nsamples, maxsize, pin_power, ghostVars, pureVars>>

\* Faulty variant of Write: a batch of a single sample is not written.
Write_min2 ==
    /\ cpc = "write"
    /\ files' = IF Len(data_collected) > 1
                THEN Append(files,
                            [time_stamp |-> data_collected[1].time_stamp,
                             records |-> data_collected])
                ELSE files
    /\ cpc' = "power"
    /\ drain_start' = NoPass
    /\ UNCHANGED <<now, chanVars, queue, enqueued, idx, count_ready,
                   data_collected, power, nsamples, maxsize, pin_power,
                   queue_at_stop, pureVars>>

\* collect_data(): io.write(f, data_collected), f named after
\* data_collected[0]['time_stamp']
Write ==
    /\ cpc = "write"
    /\ files' = IF Len(data_collected) > 0
                THEN Append(files,
                            [time_stamp |-> data_collected[1].time_stamp,
                             records |-> data_collected])
                ELSE files
    /\ cpc' = "power"
    /\ drain_start' = NoPass
    /\ UNCHANGED <<now, chanVars, queue, enqueued, idx, count_ready,
                   data_collected, power, nsamples, maxsize, pin_power,
                   queue_at_stop, pureVars>>

\* collect_data(): the power cycle test; due says whether
\* power_cycle_interval has passed.  reset_power() first drives the pin
\* low, or does nothing when there is no power pin; otherwise, and then,
\* the loop sleeps and starts its next pass
PowerCheck ==
    /\ cpc = "power"
    /\ \E due \in BOOLEAN :
         IF due /\ pin_power
         THEN /\ power' = "low"
              /\ cpc' = "poweron"
              /\ UNCHANGED data_collected
         ELSE /\ cpc' = "drain"
              /\ data_collected' = <<>>
              /\ UNCHANGED power
    /\ UNCHANGED <<now, chanVars, queue, enqueued, idx, count_ready, files,
                   nsamples, maxsize, pin_power, ghostVars, pureVars>>

\* Faulty variant of PowerOn: the pin is not driven high again.
PowerOn_stay ==
    /\ cpc = "poweron"
    /\ cpc' = "drain"
    /\ data_collected' = <<>>
    /\ UNCHANGED <<now, chanVars, queue, enqueued, idx, count_ready, files,
                   power, nsamples, maxsize, pin_power, ghostVars, pureVars>>

\* reset_power(): after the sleep the pin is driven high again
PowerOn ==
    /\ cpc = "poweron"
    /\ power' = "high"
    /\ cpc' = "drain"
    /\ data_collected' = <<>>
    /\ UNCHANGED <<now, chanVars, queue, enqueued, idx, count_ready, files,
                   nsamples, maxsize, pin_power, ghostVars, pureVars>>

\* KeyboardInterrupt inside the try block of the main loop
Interrupt ==
    /\ cpc \in {"drain", "get", "write", "power", "poweron"}
    /\ cpc' = "shutdown"
    /\ idx' = 1
    /\ queue_at_stop' = queue
    /\ drain_start' = NoPass
    /\ UNCHANGED <<now, chanVars, queue, enqueued, count_ready,
                   data_collected, files, power, nsamples, maxsize,
                   pin_power, pureVars>>

\* KeyboardInterrupt before the try block: nothing catches it
InterruptEarly ==
    /\ cpc \in {"settle", "create", "ready", "stopfail"}
    /\ cpc' = "killed"
    /\ UNCHANGED <<now, chanVars, queue, enqueued, idx, count_ready,
                   data_collected, files, power, nsamples, maxsize,
                   pin_power, ghostVars, pureVars>>

\* except KeyboardInterrupt: stop_all_channels(channels)
ShutdownStop ==
    /\ cpc = "shutdown"
    /\ StopChannel(idx)
    /\ idx' = idx + 1
    /\ cpc' = IF idx = NumChannels THEN "poweroff" ELSE "shutdown"
    /\ UNCHANGED <<now, pc, data_history, info, time_stamp_now, num_removed,
                   error, queue, enqueued, count_ready, data_collected,
                   files, power, nsamples, maxsize, pin_power, ghostVars,
                   pureVars>>

\* except KeyboardInterrupt: the power pin, if there is one, is driven
\* low; return
PowerOff ==
    /\ cpc = "poweroff"
    /\ power' = IF pin_power THEN "low" ELSE power
    /\ cpc' = "returned"
    /\ UNCHANGED <<now, chanVars, queue, enqueued, idx, count_ready,
                   data_collected, files, nsamples, maxsize, pin_power,
                   ghostVars, pureVars>>

CoordinatorStep ==
    \/ PowerUp
    \/ Settle
    \/ StartChannel
    \/ ReadyCheck
    \/ StopFail
    \/ Drain
    \/ Get
    \/ Write
    \/ PowerCheck
    \/ PowerOn
    \/ ShutdownStop
    \/ PowerOff

Next ==
    \/ Tick
    \/ \E c \in Pins : ChannelStep(c)
    \/ CoordinatorStep
    \/ Interrupt
    \/ InterruptEarly

Spec == Init /\ [][Next]_vars

\* collect_data() called with or without a power pin.
InitAnyPin ==
    /\ now = 0
    /\ pc = [c \in Pins |-> "idle"]
    /\ keep_running = [c \in Pins |-> FALSE]
    /\ data_history = [c \in Pins |-> <<>>]
    /\ data_latest = [c \in Pins |-> None]
    /\ info = [c \in Pins |-> None]
    /\ time_stamp_now = [c \in Pins |-> 0]
    /\ num_removed = [c \in Pins |-> 0]
    /\ error = [c \in Pins |-> "none"]
    /\ stop_called = [c \in Pins |-> FALSE]
    /\ queue = <<>>
    /\ maxsize = QueueMax
    /\ cpc = "init"
    /\ idx = 1
    /\ count_ready = 0
    /\ data_collected = <<>>
    /\ files = <<>>
    /\ power = "unset"
    /\ nsamples = 0
    /\ queue_at_stop = <<>>
    /\ drain_start = NoPass
    /\ capture = NoCapture
    /\ reading = NotRead
    /\ test_history = <<>>
    /\ candidate = None
    /\ info_checked = None
    /\ pin_power \in BOOLEAN
    /\ enqueued = <<>>

AnyPinSpec == InitAnyPin /\ [][Next]_vars

\* example_single(): the power pin is driven high and one Channel is built
\* on its own unbounded queue and started; nothing drains or stops it.
InitSingle ==
    /\ now = 0
    /\ pc = [c \in Pins |-> IF c = 1 THEN "start" ELSE "idle"]
    /\ keep_running = [c \in Pins |-> FALSE]
    /\ data_history = [c \in Pins |-> <<>>]
    /\ data_latest = [c \in Pins |-> None]
    /\ info = [c \in Pins |-> None]
    /\ time_stamp_now = [c \in Pins |-> 0]
    /\ num_removed = [c \in Pins |-> 0]
    /\ error = [c \in Pins |-> "none"]
    /\ stop_called = [c \in Pins |-> FALSE]
    /\ queue = <<>>
    /\ maxsize = 0
    /\ cpc = "single"
    /\ idx = 1
    /\ count_ready = 0
    /\ data_collected = <<>>
    /\ files = <<>>
    /\ power = "high"
    /\ nsamples = 0
    /\ queue_at_stop = <<>>
    /\ drain_start = NoPass
    /\ capture = NoCapture
    /\ reading = NotRead
    /\ test_history = <<>>
    /\ candidate = None
    /\ info_checked = None
    /\ pin_power = TRUE
    /\ enqueued = <<>>

NextSingle ==
    \/ Tick
    \/ ChannelStep(1)

SingleSpec == InitSingle /\ [][NextSingle]_vars

\* ---------------------------------------------- the decoder alone
\* Byte values of the frames handed to the decoder.
ByteSample == {0, 1, 80, 128, 255}

\* Frames of five bytes: every choice of the four data bytes with the
\* matching checksum byte, the one above it, 0 and 255.
Frames ==
    UNION {{<<b[1], b[2], b[3], b[4], b5>> :
               b5 \in {(b[1] + b[2] + b[3] + b[4]) % 256,
                       (b[1] + b[2] + b[3] + b[4] + 1) % 256, 0, 255}} :
           b \in ByteSample \X ByteSample \X ByteSample \X ByteSample}

\* What dht22.read_bits can return: no first marker, a first marker of
\* 0 or 1, and the bits of a frame with up to MaxBitsOff bits lost or
\* added.
Captures ==
    {[first |-> f, bits |-> CaptureBits(fr, off), frame |-> fr] :
        f \in {NoFirst, 0, 1}, fr \in Frames,
        off \in (0 - MaxBitsOff)..MaxBitsOff}

\* read_dht22_single(): first, bits = dht22.read_bits(pin_data)
InitDecode ==
    /\ now = 0
    /\ pc = [c \in Pins |-> "idle"]
    /\ keep_running = [c \in Pins |-> FALSE]
    /\ data_history = [c \in Pins |-> <<>>]
    /\ data_latest = [c \in Pins |-> None]
    /\ info = [c \in Pins |-> None]
    /\ time_stamp_now = [c \in Pins |-> 0]
    /\ num_removed = [c \in Pins |-> 0]
    /\ error = [c \in Pins |-> "none"]
    /\ stop_called = [c \in Pins |-> FALSE]
    /\ queue = <<>>
    /\ maxsize = 0
    /\ cpc = "decode"
    /\ idx = 1
    /\ count_ready = 0
    /\ data_collected = <<>>
    /\ files = <<>>
    /\ power = "high"
    /\ nsamples = 0
    /\ queue_at_stop = <<>>
    /\ drain_start = NoPass
    /\ capture \in Captures
    /\ reading = NotRead
    /\ test_history = <<>>
    /\ candidate = None
    /\ info_checked = None
    /\ pin_power = TRUE
    /\ enqueued = <<>>

\* read_dht22_single(): the capture is classified and decoded
Decode ==
    /\ cpc = "decode"
    /\ reading' = read_dht22_single(capture.first, capture.bits)
    /\ cpc' = "decoded"
    /\ UNCHANGED <<now, chanVars, queue, enqueued, maxsize, pin_power, idx,
                   count_ready, data_collected, files, power, nsamples,
                   ghostVars, capture, test_history, candidate,
                   info_checked>>

NextDecode == Decode

DecodeSpec == InitDecode /\ [][NextDecode]_vars

\* --------------------------------------- the outlier filter alone
\* The samples a history handed to the filter is made of: 40 % at
\* 70 degrees Fahrenheit and 80 % at 50 degrees.
HistorySamples ==
    {[pin |-> 1, RH |-> 400, Tf |-> 7000, time_stamp |-> 0],
     [pin |-> 1, RH |-> 800, Tf |-> 5000, time_stamp |-> 0]}

\* The new samples handed to the filter: humidities and temperatures
\* at, just inside and just outside the threshold around the medians
\* the histories have.
Candidates ==
    {[pin |-> 1, RH |-> rh, Tf |-> tf, time_stamp |-> 1] :
        rh \in {149, 150, 600, 650, 651, 1051},
        tf \in {2499, 6000, 8500, 8501}}

\* Channel.check_values is called with a data_history of
\* num_min_history - 1 to MaxHistory samples.
InitFilter ==
    /\ now = 0
    /\ pc = [c \in Pins |-> "idle"]
    /\ keep_running = [c \in Pins |-> FALSE]
    /\ data_history = [c \in Pins |-> <<>>]
    /\ data_latest = [c \in Pins |-> None]
    /\ info = [c \in Pins |-> None]
    /\ time_stamp_now = [c \in Pins |-> 0]
    /\ num_removed = [c \in Pins |-> 0]
    /\ error = [c \in Pins |-> "none"]
    /\ stop_called = [c \in Pins |-> FALSE]
    /\ queue = <<>>
    /\ maxsize = 0
    /\ cpc = "filter"
    /\ idx = 1
    /\ count_ready = 0
    /\ data_collected = <<>>
    /\ files = <<>>
    /\ power = "high"
    /\ nsamples = 0
    /\ queue_at_stop = <<>>
    /\ drain_start = NoPass
    /\ capture = NoCapture
    /\ reading = NotRead
    /\ \E n \in (num_min_history - 1)..MaxHistory :
          test_history \in [1..n -> HistorySamples]
    /\ candidate \in Candidates
    /\ info_checked = None
    /\ pin_power = TRUE
    /\ enqueued = <<>>

\* Channel.check_values(info_new)
CheckValues ==
    /\ cpc = "filter"
    /\ info_checked' = check_values(test_history, candidate)
    /\ cpc' = "filtered"
    /\ UNCHANGED <<now, chanVars, queue, enqueued, maxsize, pin_power, idx,
                   count_ready, data_collected, files, power, nsamples,
                   ghostVars, capture, reading, test_history, candidate>>

NextFilter == CheckValues

FilterSpec == InitFilter /\ [][NextFilter]_vars

\* ------------------------------------------- the main loop alone
\* The first sample of the channel of pin c, read at clock value 0.
FirstSample(c) ==
    LET r == CHOOSE r \in Readings : TRUE
    IN  [pin |-> c, RH |-> r.RH, Tf |-> c2f(r.Tc), time_stamp |-> 0]

\* collect_data() as it enters its main loop when every channel has
\* just enqueued its first sample, in any order, and waits in run().
InitMainLoop ==
    /\ now = 0
    /\ pc = [c \in Pins |-> "loop"]
    /\ keep_running = [c \in Pins |-> TRUE]
    /\ data_history = [c \in Pins |-> <<FirstSample(c)>>]
    /\ data_latest = [c \in Pins |-> FirstSample(c)]
    /\ info = [c \in Pins |-> FirstSample(c)]
    /\ time_stamp_now = [c \in Pins |-> 0]
    /\ num_removed = [c \in Pins |-> 0]
    /\ error = [c \in Pins |-> "none"]
    /\ stop_called = [c \in Pins |-> FALSE]
    /\ \E order \in [Pins -> Pins] :
          /\ \A c, d \in Pins : order[c] = order[d] => c = d
          /\ queue = [i \in Pins |-> FirstSample(order[i])]
    /\ enqueued = queue
    /\ maxsize = QueueMax
    /\ cpc = "drain"
    /\ idx = NumChannels + 1
    /\ count_ready = NumChannels
    /\ data_collected = <<>>
    /\ files = <<>>
    /\ power = "high"
    /\ nsamples = NumChannels
    /\ queue_at_stop = <<>>
    /\ drain_start = NoPass
    /\ capture = NoCapture
    /\ reading = NotRead
    /\ test_history = <<>>
    /\ candidate = None
    /\ info_checked = None
    /\ pin_power = TRUE

\* run() from its loop test on.
LoopStep(c) ==
    \/ LoopCheck(c)
    \/ ReadFail(c)
    \/ ReadOk(c)
    \/ AdjustHistory(c)
    \/ AppendData(c)
    \/ Put(c)

\* collect_data() from its main loop on.
MainLoopStep ==
    \/ Drain
    \/ Get
    \/ Write
    \/ PowerCheck
    \/ PowerOn
    \/ ShutdownStop
    \/ PowerOff

NextMainLoop ==
    \/ Tick
    \/ \E c \in Pins : LoopStep(c)
    \/ MainLoopStep
    \/ Interrupt

\* The main loop with every thread that can take a step eventually
\* taking one; the interrupt and the clock are under no obligation.
FairMainLoopSpec ==
    /\ InitMainLoop
    /\ [][NextMainLoop]_vars
    /\ \A c \in Pins : WF_vars(LoopStep(c))
    /\ WF_vars(MainLoopStep)

\* Every thread that can take a step eventually takes one; the user's
\* interrupt and the passing of time are under no obligation.
FairSpec ==
    /\ Spec
    /\ \A c \in Pins : WF_vars(ChannelStep(c))
    /\ WF_vars(CoordinatorStep)

\* pretty_status(): ' is running: %s' % self._keep_running
is_running(c) == keep_running[c]

\* ------------------------------------------------------------ claims
HistoryIndex(c) == 1..Len(data_history[c])

\* The coordinator is past the readiness wait.
InMainLoop == cpc \in {"drain", "get", "write", "power", "poweron"}

\* The thread of channel c has ended.
Finished(c) == pc[c] \in {"done", "dead"}

\* C1: a channel whose enqueue finds the queue full leaves add_data dead
\* with QueueFull, a channel that goes on to its loop test has enqueued its
\* sample, and a dead channel takes no further step.
C1_QueueFullAborts ==
    [][\A c \in Pins :
         /\ (pc[c] = "put" /\ pc'[c] # "put" /\ QueueIsFull)
               => (pc'[c] = "dead" /\ error'[c] = "QueueFull")
         /\ (pc[c] = "put" /\ pc'[c] = "loop")
               => queue' = Append(queue, info[c])
         /\ pc[c] = "dead" => pc'[c] = "dead"]_vars

C1_Witness == \E c \in Pins : pc[c] = "dead" /\ error[c] = "QueueFull"

\* C2: once a channel has died on QueueFull the coordinator eventually
\* leaves normal operation (it fails, returns or shuts down).
C2_QueueFullPropagated ==
    \A c \in Pins :
        (error[c] = "QueueFull")
            ~> (cpc \notin {"create", "ready", "drain", "get", "write",
                            "power", "poweron"})

\* C3 as stated: in every state no history holds a sample older than the
\* retention window.
C3_NeverStale ==
    \A c \in Pins : \A i \in HistoryIndex(c) :
        now - data_history[c][i].time_stamp <= time_history

\* C3 as amended: right after the eviction pass of add_data no sample of
\* the history is older than the retention window at the clock value the
\* pass read.
C3_FreshAfterEviction ==
    \A c \in Pins :
        pc[c] = "append" =>
            \A i \in HistoryIndex(c) :
                time_stamp_now[c] - data_history[c][i].time_stamp
                    <= time_history

C3_Witness ==
    \E c \in Pins :
        /\ pc[c] = "append"
        /\ num_removed[c] > 0
        /\ data_history[c] # <<>>

\* C4: the "No data remains in history" assertion never ends a channel.
C4_AssertionNeverFires == \A c \in Pins : error[c] # "ValueError"

\* C5: when add_data has appended (and when it has returned normally) the
\* new sample is the last entry of the history and no earlier entry is
\* older than the retention window at the clock value the call read.
C5_EvictThenAppend ==
    \A c \in Pins :
        (pc[c] = "put" \/ (pc[c] = "loop" /\ info[c] # None)) =>
            /\ data_history[c] # <<>>
            /\ data_history[c][Len(data_history[c])] = info[c]
            /\ \A i \in 1..(Len(data_history[c]) - 1) :
                  time_stamp_now[c] - data_history[c][i].time_stamp
                      <= time_history

C5_Witness ==
    \E c \in Pins :
        /\ pc[c] = "loop"
        /\ info[c] # None
        /\ num_removed[c] > 0
        /\ Len(data_history[c]) >= 2

\* C6: the coordinator is in (or past) its main loop only if every
\* channel has a latest sample, and it was counted ready.
C6_AllReadyBeforeMain ==
    (InMainLoop \/ cpc \in {"shutdown", "poweroff", "returned"}) =>
        /\ \A c \in Pins : data_latest[c] # None
        /\ count_ready = NumChannels

C6_Witness == cpc = "write" /\ data_collected # <<>>

\* C7: when the readiness wait has failed, the error carries the number
\* of channels that ever report a latest sample, the main loop is not
\* entered, and no channel begins another polling cycle.
C7_ReadinessTimeout ==
    [][cpc = "failed" =>
         /\ count_ready' =
               Cardinality({c \in Pins : data_latest'[c] # None})
         /\ count_ready' < NumChannels
         /\ cpc' = "failed"
         /\ \A c \in Pins : ~(pc[c] = "loop" /\ pc'[c] = "read")]_vars

\* C8: once stop() has been called on a started channel, the channel
\* begins no further polling cycle.
C8_StopHonoured ==
    [][\A c \in Pins :
         (stop_called[c] /\ pc[c] = "loop") => pc'[c] # "read"]_vars

\* C9: a channel leaves Idle only by start(), never returns to Idle, and
\* once its thread has ended it stays ended, its history and latest
\* sample never change and it enqueues nothing.
C9_Lifecycle ==
    [][\A c \in Pins :
         /\ (pc[c] = "idle" /\ pc'[c] # "idle")
               => (pc'[c] = "start" /\ cpc = "create" /\ idx = c)
         /\ (pc[c] # "idle") => (pc'[c] # "idle")
         /\ Finished(c) =>
               /\ pc'[c] = pc[c]
               /\ data_history'[c] = data_history[c]
               /\ data_latest'[c] = data_latest[c]
               /\ Len(queue') > Len(queue)
                     => queue'[Len(queue')].pin # c]_vars

C9_Witness ==
    \E c \in Pins :
        /\ pc[c] = "done"
        /\ data_latest[c] # None
        /\ \E d \in Pins : d # c /\ pc[d] = "put"

\* C10: every persisted batch is keyed by the minimum time stamp of its
\* samples.
C10_KeyIsEarliest ==
    \A k \in 1..Len(files) :
        files[k].time_stamp =
            Min({files[k].records[i].time_stamp :
                    i \in 1..Len(files[k].records)})

\* Every sample some io.write has put into a file.
Persisted ==
    UNION {{files[k].records[i] : i \in 1..Len(files[k].records)} :
              k \in 1..Len(files)}

\* C11: when the coordinator has returned from its shutdown, every sample
\* that was waiting in the queue when the interrupt arrived is in a
\* persisted batch.
C11_DrainedAtShutdown ==
    cpc = "returned" =>
        \A i \in 1..Len(queue_at_stop) : queue_at_stop[i] \in Persisted

\* C12: when the coordinator has returned from its shutdown, every
\* channel's thread has ended, every channel was told to stop and the
\* power pin is low.
C12_StoppedAtReturn ==
    cpc = "returned" =>
        /\ \A c \in Pins : stop_called[c] /\ Finished(c)
        /\ power = "low"

\* C13: when collect_data has ended on an interrupt that arrived after
\* every channel was started, every channel was told to stop and the
\* power pin is low.
C13_StopSignalAnywhere ==
    (cpc \in {"returned", "killed"} /\ \A c \in Pins : pc[c] # "idle") =>
        /\ \A c \in Pins : stop_called[c]
        /\ power = "low"

\* C14: the shared queue never holds more samples than its capacity, and
\* a channel that has a sample to enqueue can always take its step: the
\* put returns at once, whatever the queue holds.
C14_QueueBounded ==
    /\ maxsize = QueueMax
    /\ Len(queue) <= maxsize
    /\ \A c \in Pins : pc[c] = "put" => ENABLED Put(c)

C14_Witness ==
    /\ Len(queue) = QueueMax
    /\ \E c \in Pins : pc[c] = "put"

\* C15: a capture with the start marker and 40 bits decodes exactly when
\* the fifth byte of the frame is the low eight bits of the sum of the
\* first four; the reading is then ((b1 << 8) + b2, (b3 << 8) + b4) in
\* tenths, and otherwise the result is the checksum failure with no
\* reading.
C15_ChecksumDecides ==
    (cpc = "decoded" /\ capture.first = 1 /\ Len(capture.bits) = 40) =>
        LET b == capture.frame
        IN  IF b[5] = (b[1] + b[2] + b[3] + b[4]) % 256
            THEN /\ reading.ok
                 /\ reading.RH = b[1] * 256 + b[2]
                 /\ reading.Tc = b[3] * 256 + b[4]
            ELSE /\ ~reading.ok
                 /\ reading.msg = "Fail checksum"

C15_Witness ==
    /\ cpc = "decoded"
    /\ capture.first = 1
    /\ Len(capture.bits) = 40
    /\ reading.ok
    /\ reading.RH > 0
    /\ capture.frame[1] + capture.frame[2] + capture.frame[3]
           + capture.frame[4] > 255

\* C16: a failed decode returns no reading and is classified in this
\* order: no first marker; else a first marker other than 1; else a
\* capture that is not 40 bits long, whatever its bits; else the checksum.
C16_FailurePrecedence ==
    cpc = "decoded" =>
        IF capture.first = NoFirst
        THEN ~reading.ok /\ reading.msg = "read_bits message"
        ELSE IF capture.first # 1
        THEN ~reading.ok /\ reading.msg = "Fail first != 1"
        ELSE IF Len(capture.bits) # 40
        THEN ~reading.ok /\ reading.msg = "Fail len(bits) != 40"
        ELSE reading.ok \/ reading.msg = "Fail checksum"

C16_Witness ==
    /\ cpc = "decoded"
    /\ capture.first = 0
    /\ Len(capture.bits) # 40
    /\ reading.msg = "Fail first != 1"

\* The k-th smallest of the samples, by counting.
RankValue(samples, k) ==
    CHOOSE v \in {samples[i] : i \in DOMAIN samples} :
        /\ Cardinality({i \in DOMAIN samples : samples[i] < v}) < k
        /\ Cardinality({i \in DOMAIN samples : samples[i] <= v}) >= k

\* Twice the median of the samples, from their ranks.
TwiceMedian(samples) ==
    LET n == Len(samples)
    IN  IF n % 2 = 1 THEN 2 * RankValue(samples, (n + 1) \div 2)
        ELSE RankValue(samples, n \div 2) + RankValue(samples, n \div 2 + 1)

\* What the filter is to return for a value (in units of 1/scale) given
\* twice the median of the history: the median when the value is more
\* than 25 away from it, the value itself otherwise.
FilterReturns(result, value, med2, scale) ==
    IF Abs(2 * value - med2) > 2 * 25 * scale
    THEN 2 * result = med2
    ELSE result = value

\* C17: check_values returns the new sample itself when the history has
\* fewer than 10 entries; otherwise humidity and temperature are each,
\* on their own, replaced by the median of that field over the whole
\* history when more than 25 away from it and kept when at most 25 away;
\* pin and time stamp are never changed and a sample always comes back.
C17_OutlierFilter ==
    cpc = "filtered" =>
        LET n == Len(test_history)
            RHs == [i \in 1..n |-> test_history[i].RH]
            Tfs == [i \in 1..n |-> test_history[i].Tf]
        IN  /\ info_checked # None
            /\ info_checked.pin = candidate.pin
            /\ info_checked.time_stamp = candidate.time_stamp
            /\ IF n < 10
               THEN info_checked = candidate
               ELSE /\ FilterReturns(info_checked.RH, candidate.RH,
                                     TwiceMedian(RHs), 10)
                    /\ FilterReturns(info_checked.Tf, candidate.Tf,
                                     TwiceMedian(Tfs), 100)

C17_Witness ==
    /\ cpc = "filtered"
    /\ Len(test_history) = 10
    /\ candidate.RH = 651
    /\ info_checked.RH = 400
    /\ candidate.Tf = 8500
    /\ info_checked.Tf = 8500

\* C18: once the polling loop of a channel has exited, after stop() or
\* however else it ended, the channel's status no longer says it is
\* running.
C18_StatusAgrees == \A c \in Pins : Finished(c) => ~is_running(c)

\* C19: the step by which a channel leaves a read that did not decode
\* takes it back to its loop test (no second read in the cycle) and
\* changes neither its history, its latest sample, the queue, its
\* running flag nor its error: the channel goes on.
C19_FailedCycle ==
    [][\A c \in Pins :
         (pc[c] = "read" /\ pc'[c] # "read" /\ pc'[c] # "adjust") =>
             /\ pc'[c] = "loop"
             /\ data_history'[c] = data_history[c]
             /\ data_latest'[c] = data_latest[c]
             /\ queue' = queue
             /\ keep_running'[c] = keep_running[c]
             /\ error'[c] = "none"]_vars

C19_Witness ==
    \E c \in Pins :
        /\ pc[c] = "loop"
        /\ info[c] = None
        /\ data_latest[c] # None
        /\ data_history[c] # <<>>
        /\ keep_running[c]

\* s is an initial part of t.
IsPrefix(s, t) == Len(s) <= Len(t) /\ SubSeq(t, 1, Len(s)) = s

\* C20: whenever the coordinator is at its queue.get() the queue holds a
\* sample, so the call returns at once; and when a drain pass has ended,
\* its batch begins with the samples the queue held when the pass began,
\* in the order of the queue.
C20_DrainPass ==
    /\ cpc = "get" => queue # <<>>
    /\ cpc = "write" =>
          /\ drain_start # NoPass
          /\ IsPrefix(drain_start, data_collected)

C20_Witness ==
    /\ cpc = "write"
    /\ drain_start # <<>>
    /\ Len(data_collected) > Len(drain_start)

\* C21: with a power pin, a channel is started only by the coordinator's
\* channel loop, which runs after the pin was driven high and the settle
\* sleep has returned, and a channel is at a capture only after that.
C21_PowerBeforeStart ==
    [][pin_power =>
         \A c \in Pins :
             /\ (pc[c] = "idle" /\ pc'[c] # "idle")
                   => (power = "high" /\ cpc = "create")
             /\ pc'[c] = "read"
                   => /\ power' # "unset"
                      /\ cpc' \notin {"init", "settle"}]_vars

C21_Witness ==
    /\ pin_power
    /\ power = "high"
    /\ cpc = "create"
    /\ \E c \in Pins : pc[c] = "read"
    /\ \E c \in Pins : pc[c] = "idle"

\* C22: with a power pin, in the main loop the pin is low exactly while a
\* power cycle is under way and high otherwise; the two steps of a power
\* cycle drive the pin low and then high and change no channel's
\* position, running flag, history or latest sample and not the queue;
\* without a power pin the pin is never written and no power cycle is
\* entered.
C22_PowerCycle ==
    [][/\ (pin_power /\ InMainLoop)
             => power = IF cpc = "poweron" THEN "low" ELSE "high"
       /\ (pin_power /\ InMainLoop')
             => power' = IF cpc' = "poweron" THEN "low" ELSE "high"
       /\ (cpc = "power" /\ cpc' = "poweron") => power' = "low"
       /\ (cpc = "poweron" /\ cpc' = "drain") => power' = "high"
       /\ ((cpc = "power" /\ cpc' = "poweron")
              \/ (cpc = "poweron" /\ cpc' = "drain"))
             => UNCHANGED <<pc, keep_running, data_history, data_latest,
                            queue, files>>
       /\ ~pin_power
             => (power = "unset" /\ power' = "unset" /\ cpc' # "poweron")]_vars

C22_Witness ==
    /\ pin_power
    /\ cpc = "poweron"
    /\ power = "low"
    /\ queue # <<>>
    /\ \E c \in Pins : pc[c] = "put"

\* The records of every persisted batch, in the order they were written.
RECURSIVE AllRecords(_)
AllRecords(fs) ==
    IF fs = <<>> THEN <<>> ELSE Head(fs).records \o AllRecords(Tail(fs))

\* How many times x occurs in the sequence s.
Count(x, s) == Cardinality({i \in DOMAIN s : s[i] = x})

\* The batch being built: the samples dequeued by the drain pass under
\* way and not yet written.  Outside a pass there is none, and when
\* collect_data has returned its local list is gone.
Unwritten == IF cpc \in {"drain", "get", "write"} THEN data_collected ELSE <<>>

\* C23: every sample occurs in the queue, the batch being built and the
\* persisted batches together exactly as many times as it was enqueued
\* (stated for every position of the coordinator but the two steps of
\* its interrupt handler, where the abandoned batch still exists).
C23_NoLossNoDuplicate ==
    cpc \notin {"shutdown", "poweroff"} =>
        \A x \in {enqueued[i] : i \in DOMAIN enqueued}
                 \cup {AllRecords(files)[i] : i \in DOMAIN AllRecords(files)} :
            Count(x, enqueued) =
                Count(x, queue) + Count(x, Unwritten)
                    + Count(x, AllRecords(files))

\* C24: in the persisted batches taken in the order they were written,
\* followed by the batch being built, the time stamps of the samples of
\* any one pin never decrease.
C24_PerPinOrder ==
    LET s == AllRecords(files) \o Unwritten
    IN  \A i, j \in DOMAIN s :
            (i < j /\ s[i].pin = s[j].pin)
                => s[i].time_stamp <= s[j].time_stamp

C24_Witness ==
    LET s == AllRecords(files)
    IN  \E i, j \in DOMAIN s :
            /\ i < j
            /\ s[i].pin = s[j].pin
            /\ s[i].time_stamp < s[j].time_stamp
            /\ \E k \in DOMAIN s : i < k /\ k < j /\ s[k].pin # s[i].pin

=============================================================================
